---- MODULE Spec2Model ----
(***************************************************************************)
(* Model of src/src/__main__.py: Body.force, Body.download_data,           *)
(* System.__init__, System.step and the update(frame) callback of          *)
(* System.draw.                                                            *)
(*                                                                         *)
(* Numbers.  The program computes with numpy float64.  The model computes  *)
(* with exact values of the form  a + g*G  (a, g rationals, G the          *)
(* gravitational constant imported from scipy, kept symbolic), so rounding *)
(* is not modelled.  A value the exact domain cannot hold (numerator or    *)
(* denominator above Limit, an irrational norm, a term in G^2 or 1/G) is   *)
(* Top: "a float this model does not track".  A float division 0/0 or      *)
(* inf*0 gives NaN, as numpy does (with a RuntimeWarning, no exception).   *)
(***************************************************************************)
EXTENDS Integers, Sequences, FiniteSets, TLC

VARIABLES supplied,  \* the bodies passed to System(...), as constructed by Body(...)
          bodies,    \* System.bodies: the dict's values in insertion order
          t,         \* System.t
          calls,     \* number of System.step() calls made so far (history)
          pre,       \* System.bodies as it was when the last step() was entered (history)
          raised,    \* TRUE once an exception has reached the driver
          loop,      \* update(frame): iterations of "for _ in range(STEPS_PER_FRAME)" done
          reads,     \* number of completed update(frame) calls
          shown,     \* what the renderer was last given: offsets, day label, t
          probe,     \* last pair of Body.force results asked for
          last,      \* the last operation that changed the system (history)
          downloads  \* number of Body.download_data() calls made so far (history)

vars == <<supplied, bodies, t, calls, pre, raised, loop, reads, shown, probe, last, downloads>>

----------------------------------------------------------------------------
(* Program constants *)

TIME_STEP == 60
STEPS_PER_FRAME == 5000
DAY == 86400

(* Bounds of the model *)

Limit == 30000      \* largest numerator / denominator held exactly
MaxBodies == 3      \* bodies passed to System(...)
MaxMass == 2        \* masses are 1..MaxMass (kg)
MaxSteps == 3       \* step() calls made by the direct driver
MaxFrames == 2      \* update(frame) calls made by the animation
MaxDownloads == 1   \* download_data() calls made on bodies of the system

----------------------------------------------------------------------------
(* Exact rationals n/d, d > 0, in lowest terms *)

Abs(n) == IF n < 0 THEN -n ELSE n

RECURSIVE GCD(_, _)
GCD(a, b) == IF b = 0 THEN a ELSE GCD(b, a % b)

Rat(n, d) ==
    LET s == IF d < 0 THEN -1 ELSE 1
        c == GCD(Abs(n), Abs(d))
    IN  [n |-> (s * n) \div c, d |-> (s * d) \div c]

R0 == [n |-> 0, d |-> 1]

RatOK(r) == Abs(r.n) <= Limit /\ r.d <= Limit

RAdd(p, q) == Rat(p.n * q.d + q.n * p.d, p.d * q.d)
RMul(p, q) == Rat(p.n * q.n, p.d * q.d)
RNeg(p) == [n |-> -p.n, d |-> p.d]

(* Values a + g*G, NaN and Top *)

NaN == [k |-> "nan", a |-> R0, g |-> R0]
Top == [k |-> "top", a |-> R0, g |-> R0]

Mk(a, g) == IF RatOK(a) /\ RatOK(g) THEN [k |-> "num", a |-> a, g |-> g] ELSE Top

Frac(n, d) == Mk(Rat(n, d), R0)
I(n) == Frac(n, 1)
Zero == I(0)

IsNum(x) == x.k = "num"
IsZero(x) == IsNum(x) /\ x.a.n = 0 /\ x.g.n = 0
GFree(x) == IsNum(x) /\ x.g.n = 0

NNeg(x) == IF IsNum(x) THEN [k |-> "num", a |-> RNeg(x.a), g |-> RNeg(x.g)] ELSE x

NAdd(x, y) ==
    IF x.k = "nan" \/ y.k = "nan" THEN NaN
    ELSE IF x.k = "top" \/ y.k = "top" THEN Top
    ELSE Mk(RAdd(x.a, y.a), RAdd(x.g, y.g))

NSub(x, y) == NAdd(x, NNeg(y))

NMul(x, y) ==
    IF x.k = "nan" \/ y.k = "nan" THEN NaN
    ELSE IF x.k = "top" \/ y.k = "top" THEN Top
    ELSE IF x.g.n # 0 /\ y.g.n # 0 THEN Top
    ELSE Mk(RMul(x.a, y.a), RAdd(RMul(x.a, y.g), RMul(x.g, y.a)))

\* x / y.  A zero divisor gives NaN: where the program divides by zero the
\* dividend is 0 or NaN (the force on a body of mass 0), and 0/0 = NaN.
NDiv(x, y) ==
    IF x.k = "nan" \/ y.k = "nan" THEN NaN
    ELSE IF IsZero(y) THEN NaN
    ELSE IF x.k = "top" \/ y.k = "top" THEN Top
    ELSE IF y.g.n # 0 THEN Top
    ELSE LET inv == Rat(y.a.d, y.a.n)
         IN  Mk(RMul(x.a, inv), RMul(x.g, inv))

\* scipy.constants.G, kept symbolic: the value 0 + 1*G
G == [k |-> "num", a |-> R0, g |-> [n |-> 1, d |-> 1]]

(* 2D vectors (numpy arrays of shape (2,)) *)

Vec(x, y) == <<x, y>>
ZeroVec == Vec(Zero, Zero)
NaNVec == Vec(NaN, NaN)
VAdd(u, w) == Vec(NAdd(u[1], w[1]), NAdd(u[2], w[2]))
VSub(u, w) == Vec(NSub(u[1], w[1]), NSub(u[2], w[2]))
VScale(c, u) == Vec(NMul(c, u[1]), NMul(c, u[2]))
VDiv(u, c) == Vec(NDiv(u[1], c), NDiv(u[2], c))
VNeg(u) == Vec(NNeg(u[1]), NNeg(u[2]))
VIsNum(u) == IsNum(u[1]) /\ IsNum(u[2])

MaxComp == 120   \* components up to this size have their squares summed exactly

\* numpy.linalg.norm of a vector: sqrt(dx^2 + dy^2)
norm(u) ==
    IF u[1].k = "nan" \/ u[2].k = "nan" THEN NaN
    ELSE IF ~(GFree(u[1]) /\ GFree(u[2])) THEN Top
    ELSE IF u[1].a.d # 1 \/ u[2].a.d # 1 THEN Top
    ELSE IF Abs(u[1].a.n) > MaxComp \/ Abs(u[2].a.n) > MaxComp THEN Top
    ELSE LET dx == Abs(u[1].a.n)
             dy == Abs(u[2].a.n)
             s  == dx * dx + dy * dy
         IN  IF \E q \in 0..(dx + dy) : q * q = s
             THEN I(CHOOSE q \in 0..(dx + dy) : q * q = s)
             ELSE Top

Cube(x) == NMul(NMul(x, x), x)

----------------------------------------------------------------------------
(* Body *)

Unset == <<>>    \* the attribute does not exist yet

\* Body.__init__: stores its arguments unchecked.  x_new and v_new are the
\* attributes step() adds; adv counts the commits applied to the body (history).
\* m_np tells whether m is a numpy scalar (division by a numpy zero gives NaN
\* with a warning) or a Python number (division by zero raises).
Body(name, colour, x, v, r, m) ==
    [name |-> name, colour |-> colour, x |-> x, v |-> v, r |-> r, m |-> m,
     m_np |-> FALSE, x_new |-> Unset, v_new |-> Unset, adv |-> 0]

\* the same body when the caller passed m as a numpy scalar
WithNumpyMass(b) == [b EXCEPT !.m_np = TRUE]

\* The columns download_data reads from the table, in the order of its four
\* assignments: x (eph['x'], eph['y']), v (eph['vx'], eph['vy']), r
\* (eph['radius']) and m (eph['mass']).
Columns == <<"x", "v", "r", "m">>

\* the first row of a table: a record over the columns the table has
Row(x, v, r, m) == [x |-> x, v |-> v, r |-> r, m |-> m]

\* the row of a table that lacks the column after the first k
FirstColumns(row, k) == [c \in {Columns[j] : j \in 1..k} |-> row[c]]

\* TRUE when the table has every column: download_data returns normally
Complete(eph) == \A j \in 1..Len(Columns) : Columns[j] \in DOMAIN eph

\* Body.download_data, lines 40-43: four assignments in turn, each reading its
\* column first.  A missing column raises KeyError there: the assignments
\* made before it stay, the later ones are not made.  The values are elements
\* of table columns, so the m stored is a numpy scalar.  (A query that raises,
\* or a table without x, raises before the first assignment and leaves the
\* body as it was.)
DownloadInto(b, eph) ==
    LET has(k) == \A j \in 1..k : Columns[j] \in DOMAIN eph
        b1 == IF has(1) THEN [b  EXCEPT !.x = eph.x] ELSE b
        b2 == IF has(2) THEN [b1 EXCEPT !.v = eph.v] ELSE b1
        b3 == IF has(3) THEN [b2 EXCEPT !.r = eph.r] ELSE b2
    IN  IF has(4) THEN [b3 EXCEPT !.m = eph.m, !.m_np = TRUE] ELSE b3

\* a force law whose strength depends on the attracted body's mass alone
pairForceOwnMass(self, other) ==
    LET d  == VSub(self.x, other.x)
        nr == norm(d)
    IN  IF IsZero(nr) THEN NaNVec
        ELSE VScale(NDiv(NMul(NMul(NNeg(G), I(self.m)), I(self.m)), Cube(nr)), d)

\* a force law that takes the norm of the body's own position
pairForceNormSelf(self, other) ==
    LET d  == VSub(self.x, other.x)
        nr == norm(self.x)
    IN  IF IsZero(nr) THEN NaNVec
        ELSE VScale(NDiv(NMul(NMul(NNeg(G), I(self.m)), I(other.m)), Cube(nr)), d)

\* a force law with the sign of G lost: the bodies repel
pairForceRepel(self, other) ==
    LET d  == VSub(self.x, other.x)
        nr == norm(d)
    IN  IF IsZero(nr) THEN NaNVec
        ELSE VScale(NDiv(NMul(NMul(G, I(self.m)), I(other.m)), Cube(nr)), d)

\* One term of the sum in Body.force:
\*   - G * self.m * other.m / norm(self.x - other.x)**3 * (self.x - other.x)
\* With zero separation the quotient is -inf (or 0/0) and the displacement is
\* the zero vector, so every component is NaN.
pairForce(self, other) ==
    LET d  == VSub(self.x, other.x)
        nr == norm(d)
    IN  IF IsZero(nr) THEN NaNVec
        ELSE VScale(NDiv(NMul(NMul(NNeg(G), I(self.m)), I(other.m)), Cube(nr)), d)

\* Body.force(*others): sum(...) adds the terms to 0 in the order given; with
\* no others the result is that 0, which numpy broadcasts as the zero vector.
RECURSIVE forceFrom(_, _, _, _)
forceFrom(self, others, k, acc) ==
    IF k > Len(others) THEN acc
    ELSE forceFrom(self, others, k + 1, VAdd(acc, pairForce(self, others[k])))

force(self, others) == forceFrom(self, others, 1, ZeroVec)

----------------------------------------------------------------------------
(* System *)

RECURSIVE SeqOf(_, _, _)
\* the elements bs[j], j in lo..Len(bs), j # skip, in order
SeqOf(bs, lo, skip) ==
    IF lo > Len(bs) THEN <<>>
    ELSE IF lo = skip THEN SeqOf(bs, lo + 1, skip)
    ELSE <<bs[lo]>> \o SeqOf(bs, lo + 1, skip)

\* every body of the system, the body itself included
OthersAll(bs, i) == SeqOf(bs, 1, 0)

\* (other for other in self.bodies.values() if other is not body)
Others(bs, i) == SeqOf(bs, 1, i)

\* {body.name: body for body in bodies}: a repeated name keeps the position of
\* its first entry and the value of its last
RECURSIVE DictOf(_, _, _)
DictOf(args, k, acc) ==
    IF k > Len(args) THEN acc
    ELSE IF \E j \in 1..Len(acc) : acc[j].name = args[k].name
         THEN DictOf(args, k + 1,
                     [j \in 1..Len(acc) |->
                        IF acc[j].name = args[k].name THEN args[k] ELSE acc[j]])
         ELSE DictOf(args, k + 1, Append(acc, args[k]))

SystemBodies(args) == DictOf(args, 1, <<>>)

\* body.x_new = body.x + TIME_STEP * body.v
XNew(b) == VAdd(b.x, VScale(I(TIME_STEP), b.v))

\* body.v_new = body.v + TIME_STEP * body.force(...) / body.m
VNew(b, others) == VAdd(b.v, VDiv(VScale(I(TIME_STEP), force(b, others)), I(b.m)))

\* the naive update: the new state is written straight into x and v
ComputeBodyInPlace(bs, i) ==
    [bs EXCEPT ![i].x = XNew(bs[i]), ![i].v = VNew(bs[i], Others(bs, i)),
               ![i].x_new = XNew(bs[i]), ![i].v_new = VNew(bs[i], Others(bs, i))]

\* the body of the first loop of step() for the body at position i
ComputeBody(bs, i) ==
    [bs EXCEPT ![i].x_new = XNew(bs[i]), ![i].v_new = VNew(bs[i], Others(bs, i))]

\* the first loop of step(), visiting the bodies in the given order
RECURSIVE ComputePhase(_, _, _)
ComputePhase(bs, order, k) ==
    IF k > Len(order) THEN bs
    ELSE ComputePhase(ComputeBody(bs, order[k]), order, k + 1)

\* the second loop of step(): body.x = body.x_new; body.v = body.v_new
CommitBody(b) == [b EXCEPT !.x = b.x_new, !.v = b.v_new, !.adv = b.adv + 1]

\* a second loop that misses the first body
CommitPhaseSkipFirst(bs) ==
    [i \in 1..Len(bs) |-> IF i = 1 THEN bs[i] ELSE CommitBody(bs[i])]

CommitPhase(bs) == [i \in 1..Len(bs) |-> CommitBody(bs[i])]

\* self.bodies.values(): insertion order
DictOrder(bs) == [i \in 1..Len(bs) |-> i]

\* time advanced by one second instead of one step
TickUnit(time) == time + 1

\* self.t += TIME_STEP
Tick(time) == time + TIME_STEP

\* step() raises ZeroDivisionError when the only body has a Python number 0 as
\* its mass: force() is then the Python int 0 and "TIME_STEP * 0 / body.m" is
\* a Python division.  (With other bodies the force is a numpy array, and
\* with a numpy scalar as the mass the division is numpy's: both give NaN.)
StepRaises(bs) == Len(bs) = 1 /\ bs[1].m = 0 /\ ~bs[1].m_np

\* System.step
StepEffect ==
    /\ calls' = calls + 1
    /\ pre' = bodies
    /\ last' = "step"
    /\ IF StepRaises(bodies)
       THEN /\ bodies' = [bodies EXCEPT ![1].x_new = XNew(bodies[1])]
            /\ raised' = TRUE
            /\ t' = t
       ELSE /\ bodies' = CommitPhase(ComputePhase(bodies, DictOrder(bodies), 1))
            /\ raised' = FALSE
            /\ t' = Tick(t)

\* round(self.t / DAY): Python rounds a half to the even neighbour
DayLabel(time) ==
    LET q == time \div DAY
        rem == time % DAY
    IN  IF 2 * rem < DAY THEN q
        ELSE IF 2 * rem > DAY THEN q + 1
        ELSE IF q % 2 = 0 THEN q ELSE q + 1

\* what update(frame) hands to the renderer: scatter.set_offsets(...) and
\* time_label.set_text(f'DAY {...}').  adv and t are the history of the values read.
Render(bs, time) ==
    [offsets |-> [i \in 1..Len(bs) |-> bs[i].x],
     adv     |-> [i \in 1..Len(bs) |-> bs[i].adv],
     label   |-> "DAY " \o ToString(DayLabel(time)),
     t       |-> time]

\* what draw() gives the renderer before the first update: the scatter of the
\* constructed positions and an empty label
FirstFrame(bs) ==
    [offsets |-> [i \in 1..Len(bs) |-> bs[i].x],
     adv     |-> [i \in 1..Len(bs) |-> bs[i].adv],
     label   |-> "",
     t       |-> 0]

----------------------------------------------------------------------------
(* Inputs *)

NamePool == <<"sun", "mercury", "venus", "earth">>
ColourPool == <<"yellow", "grey", "orange", "blue">>

\* corners of a 3 x 4 rectangle (metres): every pairwise distance is 3, 4 or 5
PosList == << Vec(I(0), I(0)), Vec(I(3), I(0)), Vec(I(3), I(4)), Vec(I(0), I(4)) >>

\* velocities (m/s): at rest, 0.1 along x, -0.1 along y
VelSet == { ZeroVec, Vec(Frac(1, 10), Zero), Vec(Zero, Frac(-1, 10)) }

\* ephemeris rows of a service that keeps the data model: the last corner of
\* the rectangle, a velocity of VelSet other than rest, a radius, a mass > 0;
\* the table may lack columns
EphValid ==
    { FirstColumns(Row(PosList[Len(PosList)], Vec(Zero, Frac(-1, 10)), 9, MaxMass), k) :
        k \in 1..Len(Columns) }

\* ephemeris rows as the program accepts them: the mass may be zero or
\* negative, the table may lack columns
EphAny ==
    { FirstColumns(Row(PosList[1], ZeroVec, 9, mm), k) :
        mm \in (-1)..1, k \in 1..Len(Columns) }

NoProbe == [self |-> 0, other |-> 0, f |-> ZeroVec, back |-> ZeroVec]

\* System.__init__ on the supplied bodies; nothing has run yet
Start ==
    /\ bodies = SystemBodies(supplied)
    /\ t = 0
    /\ calls = 0
    /\ pre = SystemBodies(supplied)
    /\ raised = FALSE
    /\ loop = 0
    /\ reads = 0
    /\ shown = FirstFrame(SystemBodies(supplied))
    /\ probe = NoProbe
    /\ last = "init"
    /\ downloads = 0

\* Bodies as the data model wants them: distinct names, distinct positions
\* (the corners in order), masses > 0.  The first body has any velocity of
\* VelSet, the second none along x; both have any mass.  The others start at
\* rest with mass 1.
Init ==
    /\ \E n \in 1..MaxBodies :
         \E vel \in [1..n -> VelSet], ms \in [1..n -> 1..MaxMass] :
              /\ n >= 2 => vel[2][1] = Zero
              /\ \A i \in 1..n : i > 2 => vel[i] = ZeroVec /\ ms[i] = 1
              /\ supplied = [i \in 1..n |->
                               Body(NamePool[i], ColourPool[i], PosList[i], vel[i], i, ms[i])]
    /\ Start

\* Whatever Body(...) and System(...) accept: names may repeat, positions may
\* coincide, masses may be zero or negative, Python numbers or numpy scalars
InitUnchecked ==
    /\ \E n \in 1..2 :
         \E nm \in [1..n -> 1..2], ps \in [1..n -> 1..2],
            vel \in [1..n -> {ZeroVec, Vec(Frac(1, 10), Zero)}], ms \in [1..n -> (-1)..MaxMass],
            np \in BOOLEAN :
              supplied = [i \in 1..n |->
                            LET b == Body(NamePool[nm[i]], ColourPool[i], PosList[ps[i]],
                                          vel[i], i, ms[i])
                            IN  IF np THEN WithNumpyMass(b) ELSE b]
    /\ Start

\* The animated system: two bodies, the second at rest
InitDraw ==
    /\ \E vel \in VelSet, ms \in 1..MaxMass :
         supplied = << Body(NamePool[1], ColourPool[1], PosList[1], vel, 1, ms),
                       Body(NamePool[2], ColourPool[2], PosList[2], ZeroVec, 2, 1) >>
    /\ Start

----------------------------------------------------------------------------
(* Actions *)

\* the driver calls system.step()
Step ==
    /\ calls < MaxSteps
    /\ ~raised
    /\ StepEffect
    /\ UNCHANGED <<supplied, loop, reads, shown, probe, downloads>>

\* the driver calls download_data() on the body at position i of the system
\* (the dict holds the Body objects themselves, so the system sees the change).
\* When the table lacks a column the KeyError propagates to the driver, as the
\* ZeroDivisionError of step() does, and the run ends with the body as the
\* assignments made so far left it.
DownloadData(i, eph) ==
    /\ downloads < MaxDownloads
    /\ ~raised
    /\ i \in 1..Len(bodies)
    /\ bodies' = [bodies EXCEPT ![i] = DownloadInto(bodies[i], eph)]
    /\ downloads' = downloads + 1
    /\ last' = "download"
    /\ raised' = ~Complete(eph)
    /\ UNCHANGED <<supplied, t, calls, pre, loop, reads, shown, probe>>

\* a download that keeps the data model's invariants: the row's mass, when
\* it has one, is > 0 and its position is not the position of another body
DownloadValid ==
    \E i \in 1..MaxBodies, eph \in EphValid :
        /\ i \in 1..Len(bodies)
        /\ \A j \in 1..Len(bodies) : j # i => bodies[j].x # eph.x
        /\ DownloadData(i, eph)

\* a download of whatever the service returns
DownloadUnchecked == \E i \in 1..2, eph \in EphAny : DownloadData(i, eph)

\* update(frame): one iteration of "for _ in range(STEPS_PER_FRAME): self.step()"
UpdateStep ==
    /\ reads < MaxFrames
    /\ ~raised
    /\ loop < STEPS_PER_FRAME
    /\ StepEffect
    /\ loop' = loop + 1
    /\ UNCHANGED <<supplied, reads, shown, probe, downloads>>

\* update(frame): after the loop, the renderer is given the positions and the label
UpdateRead ==
    /\ reads < MaxFrames
    /\ ~raised
    /\ loop = STEPS_PER_FRAME
    /\ shown' = Render(bodies, t)
    /\ reads' = reads + 1
    /\ loop' = 0
    /\ UNCHANGED <<supplied, bodies, t, calls, pre, raised, probe, last, downloads>>

\* a caller evaluates A.force(B) and B.force(A), or A.force() when j = 0
\* (once per run: force has no side effects)
Probe(i, j) ==
    /\ probe = NoProbe
    /\ i \in 1..Len(bodies)
    /\ j \in 0..Len(bodies)
    /\ i # j
    /\ probe' = IF j = 0
                THEN [self |-> i, other |-> 0, f |-> force(bodies[i], <<>>), back |-> ZeroVec]
                ELSE [self |-> i, other |-> j,
                      f |-> force(bodies[i], <<bodies[j]>>),
                      back |-> force(bodies[j], <<bodies[i]>>)]
    /\ UNCHANGED <<supplied, bodies, t, calls, pre, raised, loop, reads, shown, last, downloads>>

Next == Step \/ DownloadValid

Spec == Init /\ [][Next]_vars

NextUnchecked == Step \/ DownloadUnchecked

SpecUnchecked == InitUnchecked /\ [][NextUnchecked]_vars

NextDraw == UpdateStep \/ UpdateRead

SpecDraw == InitDraw /\ [][NextDraw]_vars

NextForce == \E i \in 1..MaxBodies, j \in 0..MaxBodies : Probe(i, j)

SpecForce == (Init \/ InitUnchecked) /\ [][NextForce]_vars

----------------------------------------------------------------------------
(* Properties *)

Idx == 1..Len(bodies)

Perms(n) == { p \in [1..n -> 1..n] : \A i, j \in 1..n : p[i] = p[j] => i = j }

\* the naive in-place sequential update of a whole system
RECURSIVE NaivePhase(_, _)
NaivePhase(bs, k) ==
    IF k > Len(bs) THEN bs ELSE NaivePhase(ComputeBodyInPlace(bs, k), k + 1)

AllExact(bs) == \A i \in 1..Len(bs) : VIsNum(bs[i].x) /\ VIsNum(bs[i].v)

State(bs) == [i \in 1..Len(bs) |-> <<bs[i].x, bs[i].v>>]

\* C1: after a step of a system of 3 or more bodies every body has
\* x = x_pre + dt*v_pre and v = v_pre + dt*F/m, F being the force from the
\* pre-step positions of all the others, and visiting the bodies in any other
\* order gives the same system.
C1_TwoPhaseUpdate ==
    (last = "step" /\ Len(bodies) >= 3) =>
        /\ \A i \in Idx :
             /\ bodies[i].x = VAdd(pre[i].x, VScale(I(TIME_STEP), pre[i].v))
             /\ bodies[i].v = VAdd(pre[i].v,
                                   VDiv(VScale(I(TIME_STEP), force(pre[i], Others(pre, i))),
                                        I(pre[i].m)))
        /\ \A p \in Perms(Len(pre)) : CommitPhase(ComputePhase(pre, p, 1)) = bodies

\* a first step of three bodies, all values exact, whose result the naive
\* in-place update (also exact) does not give
C1_Witness ==
    /\ last = "step"
    /\ calls = 1
    /\ Len(bodies) = 3
    /\ AllExact(bodies)
    /\ AllExact(NaivePhase(pre, 1))
    /\ State(NaivePhase(pre, 1)) # State(bodies)

\* C2: t starts at 0, equals (number of step() calls) * TIME_STEP in every
\* state, never decreases, and changes only in a step() call (a
\* download_data() call leaves it alone).
C2_MonotonicTime ==
    /\ t = 0
    /\ [](t = calls * TIME_STEP)
    /\ [][t' >= t /\ (t' # t => calls' = calls + 1)]_vars

\* the step() calls allowed by the bound have all been made, with a download
\* among them
C2_Witness ==
    /\ calls = MaxSteps
    /\ t = MaxSteps * TIME_STEP
    /\ downloads > 0
    /\ last = "step"

RECURSIVE MomentumFrom(_, _, _)
MomentumFrom(bs, k, acc) ==
    IF k > Len(bs) THEN acc
    ELSE MomentumFrom(bs, k + 1, VAdd(acc, VScale(I(bs[k].m), bs[k].v)))

\* total momentum, sum of m * v
Momentum(bs) == MomentumFrom(bs, 1, ZeroVec)

\* C3: in a system of two or more bodies a step() call leaves the total
\* momentum as it was, whenever the exact domain holds it; so after any
\* number of step() calls, and nothing else, it is the momentum the system
\* was constructed with.
C3_MomentumConserved ==
    (Len(bodies) >= 2 /\ VIsNum(Momentum(bodies))) =>
        /\ (last = "step" /\ VIsNum(Momentum(pre))) => Momentum(bodies) = Momentum(pre)
        /\ downloads = 0 => Momentum(bodies) = Momentum(SystemBodies(supplied))

\* two steps taken and nothing else, velocities changed by the forces,
\* momentum exact and not zero
C3_Witness ==
    /\ calls = 2
    /\ downloads = 0
    /\ Len(bodies) >= 2
    /\ AllExact(bodies)
    /\ VIsNum(Momentum(bodies))
    /\ Momentum(bodies) # ZeroVec
    /\ \A i \in Idx : bodies[i].v # pre[i].v
    /\ \E i, j \in Idx : bodies[i].m # bodies[j].m

\* C4: for two bodies A and B at different positions, A.force(B) is the
\* negation of B.force(A).
C4_ForceSymmetry ==
    (probe.other # 0 /\ bodies[probe.self].x # bodies[probe.other].x) =>
        probe.f = VNeg(probe.back)

\* a pair of different masses has been probed and the force is exact and not zero
C4_Witness ==
    /\ probe.other # 0
    /\ bodies[probe.self].m # bodies[probe.other].m
    /\ VIsNum(probe.f)
    /\ probe.f # ZeroVec
    /\ probe.f = VNeg(probe.back)

\* C5: no System ever holds a body whose mass is zero or negative, and
\* step() never divides by a zero mass.
C5_InvalidMassRejected ==
    /\ \A i \in Idx : bodies[i].m > 0
    /\ ~(raised /\ last = "step")

\* the frame of one transition: which attributes of which bodies it keeps
SameLen == Len(bodies') = Len(bodies)
Keeps(i, attr) == bodies'[i][attr] = bodies[i][attr]
IsStep == calls' = calls + 1

\* C6: a step() call leaves the body set and every body's name, colour, r
\* and m alone, and changes nothing of a body but x and v (so it leaves no
\* pending x_new, v_new on the body).
C6_FrameOnlyXV ==
    [][ IsStep =>
          /\ SameLen
          /\ \A i \in Idx :
               \A attr \in {"name", "colour", "r", "m", "x_new", "v_new"} : Keeps(i, attr)
      ]_vars

OnXAxis(b) == b.x[2] = Zero
AtRest(b) == b.v = ZeroVec

\* the first coordinate of an exact G-free integer position
XCoord(b) == b.x[1].a.n

\* g * G, the value with no G-free part
TimesG(n, d) == Mk(R0, Rat(n, d))

\* C7: two bodies on the x-axis, both at rest: after one step neither has
\* moved, and each has the velocity dt * G * (mass of the other) / d^2 along
\* the x-axis, directed at the other.
C7_AttractionAtRest ==
    (/\ last = "step"
     /\ calls = 1
     /\ Len(bodies) = 2
     /\ \A i \in Idx : OnXAxis(pre[i]) /\ AtRest(pre[i])) =>
        LET d == XCoord(pre[2]) - XCoord(pre[1])
        IN  /\ \A i \in Idx : bodies[i].x = pre[i].x
            /\ bodies[2].v = Vec(TimesG(-TIME_STEP * pre[1].m * d, Abs(d) * d * d), Zero)
            /\ bodies[1].v = Vec(TimesG(TIME_STEP * pre[2].m * d, Abs(d) * d * d), Zero)

\* that step has been taken, by two bodies of different masses
C7_Witness ==
    /\ last = "step"
    /\ calls = 1
    /\ Len(bodies) = 2
    /\ \A i \in Idx : OnXAxis(pre[i]) /\ AtRest(pre[i])
    /\ bodies[1].m # bodies[2].m
    /\ bodies[2].v[1].g.n < 0
    /\ bodies[1].v[1].g.n > 0

\* C8: force() of no others is zero, and in a system of one body every step
\* leaves the velocity alone and moves the position by dt * v.
C8_IsolatedBody ==
    (Len(bodies) = 1) =>
        /\ force(bodies[1], <<>>) = ZeroVec
        /\ last = "step" =>
             /\ bodies[1].v = pre[1].v
             /\ bodies[1].x = VAdd(pre[1].x, VScale(I(TIME_STEP), pre[1].v))

\* a moving single body has taken all its steps
C8_Witness ==
    /\ Len(bodies) = 1
    /\ last = "step"
    /\ calls = MaxSteps
    /\ bodies[1].v # ZeroVec
    /\ bodies[1].x # supplied[1].x
    /\ AllExact(bodies)

\* C9: every body supplied to System(...) is in System.bodies, and there are
\* as many entries as bodies supplied.
C9_NoBodyDropped ==
    /\ Len(bodies) = Len(supplied)
    /\ \A k \in 1..Len(supplied) :
         \E i \in Idx :
            /\ bodies[i].name = supplied[k].name
            /\ bodies[i].colour = supplied[k].colour

\* C10: what the renderer is given was read when every body had been
\* committed the same number of times, reads * STEPS_PER_FRAME = t / TIME_STEP;
\* and at the point of the read no body has a pending value that differs from
\* its committed one.
C10_RenderConsistent ==
    /\ \A i \in Idx :
         /\ shown.adv[i] = reads * STEPS_PER_FRAME
         /\ shown.t = TIME_STEP * shown.adv[i]
    /\ (loop = STEPS_PER_FRAME) =>
         \A i \in Idx :
            /\ bodies[i].adv * TIME_STEP = t
            /\ bodies[i].adv = (reads + 1) * STEPS_PER_FRAME
            /\ bodies[i].x_new = bodies[i].x
            /\ bodies[i].v_new = bodies[i].v
    /\ (loop = 0 /\ reads > 0) =>
         /\ shown.t = t
         /\ \A i \in Idx : shown.offsets[i] = bodies[i].x

\* the second frame has been rendered
C10_Witness ==
    /\ reads = 2
    /\ loop = 0
    /\ Len(bodies) = 2
    /\ shown.t = 2 * STEPS_PER_FRAME * TIME_STEP
    /\ shown.label = "DAY 7"

====
